---- MODULE Spec2Model ----
(***************************************************************************)
(* git-sign-verifier: the verify command (src/src/verify.rs), the          *)
(* checkpoint writer (src/src/git.rs) and the trust decision               *)
(* (src/src/gpg.rs), over a repository that grows between invocations.     *)
(*                                                                         *)
(* A repository is a DAG of commits (ids 1..Len(commits), a parent always  *)
(* has a smaller id), HEAD, the reference refs/tags/SIGN_VERIFIED and the  *)
(* local configuration.  One invocation of verify_command runs at a time   *)
(* and walks through its program points; the repository only changes       *)
(* between invocations.                                                    *)
(*                                                                         *)
(* Spec is that protocol. InitSpec runs init_command (src/src/init.rs),    *)
(* MainSpec the verify path of the binary (src/src/main.rs), and GpgSpec,  *)
(* ConfigSpec and DataSpec apply verify_gpg_signature_result,              *)
(* read_or_update_local_config and signed_commit_data to inputs drawn      *)
(* from bounded sets. FaultSpec is the protocol over an object store that  *)
(* can fail, RerunSpec the protocol with any user.name, LiveSpec the       *)
(* protocol with a fair invocation, and TagSpec follows the bytes of a     *)
(* checkpoint from add_tag to verify_tag.                                  *)
(***************************************************************************)
EXTENDS Naturals, Sequences, FiniteSets

\* Largest number of commits a repository holds.
MaxCommits == 3

VARIABLES
    commits,    \* the object store's commits: <<[parents, gpgsig]>>, id = index
    head,       \* the commit HEAD resolves to
    tagRef,     \* refs/tags/SIGN_VERIFIED: what the reference points at
    config,     \* the local configuration: per key, its value or None
    pc,         \* position of the running verify_command
    result,     \* what verify_command returned: "true", "false", "error"
    fromRef,    \* verify_command's from_ref (the reference check_tag_exists gave)
    todo,       \* the revwalk iterator: commit ids still to be yielded
    walkOrder,  \* the order the revwalk chose for this invocation
    trace,      \* what this invocation did so far, in order
    tagBefore,  \* the reference as it was when the invocation started
    trees,      \* per commit, what its tree holds at the authorized-keys path
    gpgme_home_dir, \* init_command's argument of the running invocation
    exitCode,   \* the exit status of the process of main.rs: <<>>, then <<code>>
    signatures, \* a VerificationResult: the signer outcomes, in order
    gpgOut,     \* what verify_gpg_signature_result returned for signatures
    gpgFirst,   \* how the first ordering of the same outcomes was judged
    cfgCall,    \* the last call of read_or_update_local_config: arguments, return
    cfgProvided,\* per setting, the value last provided to a call, if any
    header,     \* a commit's raw header bytes
    body,       \* a commit's raw message bytes
    payload,    \* what signed_commit_data returned for header and body
    tagger,     \* the tagger of a checkpoint: name, email, UTC offset
    tagBytes    \* the bytes add_tag signed and wrote, and verify_tag's split of them

\* The repository and the running command.
repoVars == <<commits, head, tagRef, config, pc, result, fromRef, todo, walkOrder, trace,
              tagBefore>>
\* The inputs and outputs of the functions examined on their own.
initVars == <<trees, gpgme_home_dir>>
gpgVars == <<signatures, gpgOut, gpgFirst>>
cfgVars == <<cfgCall, cfgProvided>>
dataVars == <<header, body, payload>>
tagVars == <<tagger, tagBytes>>

vars == <<repoVars, initVars, exitCode, gpgVars, cfgVars, dataVars, tagVars>>

-----------------------------------------------------------------------------
(* Signature blocks.  A block is identified by its first line and, for a  *)
(* PGP block, by what the engine's keyring makes of it.                    *)

PGP_MARKER == "-----BEGIN PGP SIGNATURE-----"
SSH_MARKER == "-----BEGIN SSH SIGNATURE-----"
OTHER_MARKER == "-----BEGIN FOO SIGNATURE-----"

\* The text verify_tag searches a tag object for.
BEGIN == "-----BEGIN"

\* "none": the object carries no signature block at all.
SigBlocks ==
    {"none", "pgp_trusted", "pgp_expired", "pgp_untrusted", "pgp_error", "ssh", "unknown"}

\* signature_str.lines().next().unwrap_or("")
FirstLine(block) ==
    CASE block \in {"pgp_trusted", "pgp_expired", "pgp_untrusted", "pgp_error"} -> PGP_MARKER
      [] block = "ssh" -> SSH_MARKER
      [] block = "unknown" -> OTHER_MARKER
      [] OTHER -> ""

\* What gpg_ctx.verify_detached answers for a PGP block under the configured
\* keyring: an engine error, or the list of signer outcomes. "pgp_trusted" is
\* a good signature by a fully valid key, "pgp_expired" an expired signature
\* by a fully valid key, "pgp_untrusted" a signature by a key the keyring
\* does not hold.
EngineVerifyDetached(block) ==
    CASE block = "pgp_trusted" ->
            [err |-> FALSE,
             sigs |-> <<[summary |-> {"VALID", "GREEN"}, validity |-> "Full"]>>]
      [] block = "pgp_expired" ->
            [err |-> FALSE,
             sigs |-> <<[summary |-> {"GREEN", "SIG_EXPIRED"}, validity |-> "Full"]>>]
      [] block = "pgp_untrusted" ->
            [err |-> FALSE,
             sigs |-> <<[summary |-> {"KEY_MISSING"}, validity |-> "Unknown"]>>]
      [] OTHER -> [err |-> TRUE, sigs |-> <<>>]

-----------------------------------------------------------------------------
(* gpg.rs: the trust decision over the signer outcomes of one result.      *)

TrustedValidities == {"Full", "Ultimate", "Marginal"}

\* The errors one signer outcome pushes, in the order of the code's checks.
SigErrors(sig) ==
    (IF "KEY_REVOKED" \in sig.summary THEN <<"GPG key revoked">> ELSE <<>>)
    \o (IF "KEY_EXPIRED" \in sig.summary THEN <<"GPG key expired">> ELSE <<>>)
    \o (IF "SIG_EXPIRED" \in sig.summary THEN <<"Signature expired">> ELSE <<>>)
    \o (IF "KEY_MISSING" \in sig.summary
        THEN <<"Unknown GPG key, missing in keyring">> ELSE <<>>)
    \o (IF "VALID" \notin sig.summary THEN <<"Invalid signature">> ELSE <<>>)

RECURSIVE ScanSignatures_ErrorsBlock(_, _, _)
\* the scan accepting a signer only while no error has been pushed, by this
\* signer or by one before it
ScanSignatures_ErrorsBlock(sigs, i, errors) ==
    IF i > Len(sigs)
    THEN IF errors = <<>> THEN "No signature found" ELSE Head(errors)
    ELSE IF sigs[i].validity \in TrustedValidities /\ errors \o SigErrors(sigs[i]) = <<>>
         THEN "Ok"
         ELSE ScanSignatures_ErrorsBlock(sigs, i + 1,
                errors \o SigErrors(sigs[i])
                       \o <<"GPG key untrusted, should be Full, Ultimate or Marginal.">>)

RECURSIVE ScanSignatures_SilentUntrusted(_, _, _)
\* the scan pushing no error for a key whose validity is not accepted
ScanSignatures_SilentUntrusted(sigs, i, errors) ==
    IF i > Len(sigs)
    THEN IF errors = <<>> THEN "No signature found" ELSE Head(errors)
    ELSE IF sigs[i].validity \in TrustedValidities
         THEN "Ok"
         ELSE ScanSignatures_SilentUntrusted(sigs, i + 1, errors \o SigErrors(sigs[i]))

RECURSIVE ScanSignatures_ValidIsEnough(_, _, _)
\* the scan accepting a signer outcome on its VALID flag, whatever the
\* validity of the key
ScanSignatures_ValidIsEnough(sigs, i, errors) ==
    IF i > Len(sigs)
    THEN IF errors = <<>> THEN "No signature found" ELSE Head(errors)
    ELSE IF sigs[i].validity \in TrustedValidities \/ "VALID" \in sigs[i].summary
         THEN "Ok"
         ELSE ScanSignatures_ValidIsEnough(sigs, i + 1,
                errors \o SigErrors(sigs[i])
                       \o <<"GPG key untrusted, should be Full, Ultimate or Marginal.">>)

RECURSIVE ScanSignatures(_, _, _)
\* The loop over the signer outcomes from the i-th on, errors being the
\* vector pushed so far.
ScanSignatures(sigs, i, errors) ==
    IF i > Len(sigs)
    THEN IF errors = <<>> THEN "No signature found" ELSE Head(errors)
    ELSE IF sigs[i].validity \in TrustedValidities
         THEN "Ok"
         ELSE ScanSignatures(sigs, i + 1,
                errors \o SigErrors(sigs[i])
                       \o <<"GPG key untrusted, should be Full, Ultimate or Marginal.">>)

\* "Ok", or the error string returned.
verify_gpg_signature_result(sigs) == ScanSignatures(sigs, 1, <<>>)

-----------------------------------------------------------------------------
(* verify.rs: classification of a signature block and the verdicts.        *)

\* A verdict: res is what the function returns, engine tells whether
\* verify_detached was called, diag is the diagnostic printed and names the
\* identifier the diagnostic mentions (a commit id, 0 for the checkpoint).
Verdict(r, e, d, n) == [res |-> r, engine |-> e, diag |-> d, names |-> n]

\* What the PGP branch answers: the engine's result judged by gpg.rs.
PgpVerdict(block, identifier) ==
    LET r == EngineVerifyDetached(block) IN
    IF r.err
    THEN Verdict("false", TRUE, "engine error", identifier)
    ELSE IF verify_gpg_signature_result(r.sigs) = "Ok"
         THEN Verdict("true", TRUE, "trusted", identifier)
         ELSE Verdict("false", TRUE, verify_gpg_signature_result(r.sigs), identifier)

\* verify_detached_signature handing SSH blocks to the engine as well
verify_detached_signature_SshToEngine(block, identifier) ==
    IF FirstLine(block) \in {PGP_MARKER, SSH_MARKER}
    THEN PgpVerdict(block, identifier)
    ELSE Verdict("false", FALSE, "unknown signature type", identifier)

verify_detached_signature(block, identifier) ==
    IF FirstLine(block) = PGP_MARKER
    THEN PgpVerdict(block, identifier)
    ELSE IF FirstLine(block) = SSH_MARKER
         THEN Verdict("false", FALSE, "unsupported SSH signature", identifier)
         ELSE Verdict("false", FALSE, "unknown signature type", identifier)

\* verify_commit taking a commit without gpgsig header for a verified one
verify_commit_UnsignedOk(c) ==
    IF commits[c].gpgsig = "none"
    THEN Verdict("true", FALSE, "-", c)
    ELSE verify_detached_signature(commits[c].gpgsig, c)

\* verify_commit: a commit without gpgsig header is an Err, which
\* verify_from_ref reports as "not signed" and turns into false.
verify_commit(c) ==
    IF commits[c].gpgsig = "none"
    THEN Verdict("error", FALSE, "not signed", c)
    ELSE verify_detached_signature(commits[c].gpgsig, c)

\* verify_tag that takes the checkpoint as it is, without verifying it
verify_tag_NotVerified(ref) == Verdict("true", FALSE, "-", 0)

\* verify_tag that looks for a PGP block only: any other trailing text is
\* reported as a missing signature
verify_tag_PgpOnly(ref) ==
    IF ref.kind = "tag"
    THEN IF ~ref.utf8
         THEN Verdict("error", FALSE, "invalid UTF-8 in tag", 0)
         ELSE IF FirstLine(ref.sig) # PGP_MARKER
              THEN Verdict("false", FALSE, "signature not found in annotated tag", 0)
              ELSE verify_detached_signature(ref.sig, 0)
    ELSE Verdict("false", FALSE, "lightweight tag or tag not signed", 0)

\* verify_tag on what the reference points at. The object is split at the
\* first "-----BEGIN": when the metadata hold that text, what is submitted
\* as the signature starts inside the tagger line, with no known marker.
verify_tag(ref) ==
    IF ref.kind = "tag"
    THEN IF ~ref.utf8
         THEN Verdict("error", FALSE, "invalid UTF-8 in tag", 0)
         ELSE IF ref.begin
              THEN verify_detached_signature("unknown", 0)
              ELSE IF ref.sig = "none"
                   THEN Verdict("false", FALSE, "signature not found in annotated tag", 0)
                   ELSE verify_detached_signature(ref.sig, 0)
    ELSE Verdict("false", FALSE, "lightweight tag or tag not signed", 0)

-----------------------------------------------------------------------------
(* The commit graph and the range of a revwalk.                            *)

Ids == 1..Len(commits)

RECURSIVE Ancestors(_)
\* c and everything reachable from it through parents
Ancestors(c) ==
    {c} \cup UNION {Ancestors(p) : p \in commits[c].parents}

RECURSIVE FirstParents(_)
\* c and its first-parent chain (the first parent is the one of least id)
FirstParents(c) ==
    IF commits[c].parents = {}
    THEN {c}
    ELSE {c} \cup FirstParents(CHOOSE p \in commits[c].parents :
                                 \A q \in commits[c].parents : p <= q)

\* a range that follows first parents only and so misses merged side branches
Range_FirstParent(from, to) == FirstParents(to) \ Ancestors(from)

\* a range that holds the tip alone
Range_TipOnly(from, to) == {to} \ Ancestors(from)

\* push_range "from..to": reachable from to, not reachable from from
Range(from, to) == Ancestors(to) \ Ancestors(from)

\* Every order in which a set can be enumerated.
Orders(S) ==
    {s \in [1..Cardinality(S) -> S] : \A i, j \in 1..Cardinality(S) : s[i] = s[j] => i = j}

-----------------------------------------------------------------------------
(* config.rs: the local configuration level and how a Config is resolved.  *)

\* Option::None, and a configuration key that is not set.
None == "None"

\* The values a setting can hold.
Values == {"a", "b"}

\* The local configuration: per key its value, or None when it is not set.
Store(n, e, d, un, ue) ==
    [taggername |-> n, taggeremail |-> e, gpgmehomedir |-> d,
     username |-> un, useremail |-> ue]

\* What a call returns: Err, or Ok(Config), and the configuration it leaves.
ConfigResult(e, s, n, m, d) ==
    [err |-> e, store |-> s, name |-> n, email |-> m, gpgme_home_dir |-> d]

\* read_or_update_local_config that reads the keyring home without writing it
read_or_update_local_config_HomeNotSet(store, provided_name, provided_email, home_dir) ==
    LET s1 == IF provided_name # None THEN [store EXCEPT !.taggername = provided_name] ELSE store
        s2 == IF provided_email # None THEN [s1 EXCEPT !.taggeremail = provided_email] ELSE s1
    IN  IF s1.taggername = None
        THEN ConfigResult(TRUE, s1, None, None, None)
        ELSE IF s2.taggeremail = None
             THEN ConfigResult(TRUE, s2, None, None, None)
             ELSE ConfigResult(FALSE, s2, s2.taggername, s2.taggeremail,
                               IF home_dir # None THEN home_dir ELSE s2.gpgmehomedir)

\* read_or_update_local_config that persists the keyring home it resolved,
\* the engine's default ("a") when none is provided or set
read_or_update_local_config_PersistsDefault(store, provided_name, provided_email, home_dir) ==
    LET s1 == IF provided_name # None THEN [store EXCEPT !.taggername = provided_name] ELSE store
        s2 == IF provided_email # None THEN [s1 EXCEPT !.taggeremail = provided_email] ELSE s1
        dir == IF home_dir # None THEN home_dir
               ELSE IF s2.gpgmehomedir # None THEN s2.gpgmehomedir ELSE "a"
    IN  IF s1.taggername = None
        THEN ConfigResult(TRUE, s1, None, None, None)
        ELSE IF s2.taggeremail = None
             THEN ConfigResult(TRUE, s2, None, None, None)
             ELSE ConfigResult(FALSE, [s2 EXCEPT !.gpgmehomedir = dir],
                               s2.taggername, s2.taggeremail, dir)

\* read_or_update_local_config: name, email and keyring home are resolved in
\* that order; a provided value is set in the configuration and returned as
\* given, a value not provided is read. A name or email that is neither
\* provided nor set returns Err at that point (what was set before stays
\* set); a keyring home that is neither provided nor set is None.
read_or_update_local_config(store, provided_name, provided_email, home_dir) ==
    LET s1 == IF provided_name # None THEN [store EXCEPT !.taggername = provided_name] ELSE store
        resolved_name == IF provided_name # None THEN provided_name ELSE store.taggername
        s2 == IF provided_email # None THEN [s1 EXCEPT !.taggeremail = provided_email] ELSE s1
        resolved_email == IF provided_email # None THEN provided_email ELSE s1.taggeremail
        s3 == IF home_dir # None THEN [s2 EXCEPT !.gpgmehomedir = home_dir] ELSE s2
        resolved_gpgme_home_dir == IF home_dir # None THEN home_dir ELSE s2.gpgmehomedir
    IN  IF resolved_name = None
        THEN ConfigResult(TRUE, s1, None, None, None)
        ELSE IF resolved_email = None
             THEN ConfigResult(TRUE, s2, None, None, None)
             ELSE ConfigResult(FALSE, s3, resolved_name, resolved_email,
                               resolved_gpgme_home_dir)

\* The three settings read_or_update_local_config resolves: the argument
\* that provides each, and the key that persists it.
Settings == {"name", "email", "gpgme_home_dir"}
KeyOf(setting) ==
    CASE setting = "name" -> "taggername"
      [] setting = "email" -> "taggeremail"
      [] setting = "gpgme_home_dir" -> "gpgmehomedir"

\* cfgCall before any call; cfgProvided before any value was provided.
NoCall == [made |-> FALSE, args |-> [s \in Settings |-> None],
           before |-> Store(None, None, None, None, None),
           ret |-> ConfigResult(FALSE, Store(None, None, None, None, None), None, None, None)]
NothingProvided == [any |-> [s \in Settings |-> None], ok |-> [s \in Settings |-> None]]

\* git.rs read_user: Err unless user.name and user.email are both set.
read_user(store) ==
    [err |-> store.username = None \/ store.useremail = None,
     name |-> store.username, email |-> store.useremail]

-----------------------------------------------------------------------------
(* State.                                                                  *)

\* What the reference points at. For a tag object: its target, whether its
\* bytes are UTF-8, the signature block that follows its metadata, and
\* whether the metadata themselves hold the text "-----BEGIN" (begin).
NoRef == [kind |-> "none", target |-> 0, utf8 |-> TRUE, sig |-> "none", begin |-> FALSE]
LightweightTag(c) ==
    [kind |-> "commit", target |-> c, utf8 |-> TRUE, sig |-> "none", begin |-> FALSE]
TagObject(c, u, s) == [kind |-> "tag", target |-> c, utf8 |-> u, sig |-> s, begin |-> FALSE]

\* The tag object add_tag writes for the tagger user: the metadata hold the
\* tagger's name and email as they are configured.
WrittenTag(c, block, user) ==
    [TagObject(c, TRUE, block) EXCEPT !.begin = BEGIN \in {user.name, user.email}]

\* One step of an invocation: ev is "engine" (verify_detached called on id),
\* "tag" (verify_tag returned), "commit" (verify_commit returned for id),
\* "sign" (sign_detached returned) or "write" (the reference was written).
Event(e, i, v, d, n) == [ev |-> e, id |-> i, verdict |-> v, diag |-> d, names |-> n]

\* The checkpoints a repository can start with: none, a lightweight tag, or
\* an annotated tag with any trailing text, readable as UTF-8 or not.
InitialRefs ==
    {NoRef, LightweightTag(1)}
    \cup {TagObject(1, TRUE, s) : s \in SigBlocks}
    \cup {TagObject(1, FALSE, "pgp_trusted")}

\* The local configurations a repository is verified with: every key set,
\* the tagger name missing, user.name missing, the keyring home missing.
Configs == {Store("a", "a", "a", "a", "a"),
            Store(None, "a", "a", "a", "a"),
            Store("a", "a", "a", None, "a"),
            Store("a", "a", None, "a", "a")}

\* The variables of the functions examined on their own, at rest.
InitIdle == trees = <<>> /\ gpgme_home_dir = None
MainIdle == exitCode = <<>>
GpgIdle == signatures = <<>> /\ gpgOut = None /\ gpgFirst = None
CfgIdle == cfgCall = NoCall /\ cfgProvided = NothingProvided
\* payload before signed_commit_data returned.
NoPayload == [done |-> FALSE, bytes |-> <<>>]
DataIdle == header = <<>> /\ body = <<>> /\ payload = NoPayload
\* tagger before a name is typed, tagBytes before add_tag ran.
NoTagger == [name |-> <<>>, email |-> <<>>, sign |-> "+", minutes |-> 0]
NoTagBytes == [stage |-> "none", signed |-> <<>>, signature |-> <<>>, object |-> <<>>,
               tag_content |-> <<>>, signature_data |-> <<>>]
TagIdle == tagger = NoTagger /\ tagBytes = NoTagBytes
OthersIdle == InitIdle /\ MainIdle /\ GpgIdle /\ CfgIdle /\ DataIdle /\ TagIdle

\* What the protocol leaves alone.
others == <<initVars, exitCode, gpgVars, cfgVars, dataVars, tagVars>>

Init ==
    /\ commits = <<[parents |-> {}, gpgsig |-> "pgp_trusted"]>>
    /\ head = 1
    /\ tagRef \in InitialRefs
    /\ config \in Configs
    /\ pc = "idle"
    /\ result = "none"
    /\ fromRef = NoRef
    /\ todo = <<>>
    /\ walkOrder = <<>>
    /\ trace = <<>>
    /\ tagBefore = NoRef
    /\ OthersIdle

-----------------------------------------------------------------------------
(* The repository's users, between invocations.                            *)

\* git commit / git merge: a new commit on one or two existing parents,
\* with any signature block, becomes HEAD.
GitCommit ==
    /\ pc = "idle"
    /\ Len(commits) < MaxCommits
    /\ \E ps \in SUBSET Ids, s \in SigBlocks :
          /\ Cardinality(ps) \in {1, 2}
          /\ commits' = Append(commits, [parents |-> ps, gpgsig |-> s])
    /\ head' = Len(commits) + 1
    /\ UNCHANGED <<tagRef, config, pc, result, fromRef, todo, walkOrder, trace, tagBefore>>
    /\ UNCHANGED others

\* git checkout / git reset: HEAD moves to any existing commit.
GitCheckout ==
    /\ pc = "idle"
    /\ \E c \in Ids : c # head /\ head' = c
    /\ UNCHANGED <<commits, tagRef, config, pc, result, fromRef, todo, walkOrder, trace,
                   tagBefore>>
    /\ UNCHANGED others

-----------------------------------------------------------------------------
(* verify_command, one program point at a time.                            *)

Finish(r) ==
    /\ pc' = "done"
    /\ result' = r

\* lines 8-12: open the repository, resolve the configuration.
VerifyStart ==
    /\ pc = "idle"
    /\ tagBefore' = tagRef
    /\ LET r == read_or_update_local_config(config, None, None, None) IN
       /\ config' = r.store
       /\ IF r.err
          THEN Finish("error")
          ELSE /\ pc' = "anchor"
               /\ UNCHANGED result
    /\ UNCHANGED <<commits, head, tagRef, fromRef, todo, walkOrder, trace>>
    /\ UNCHANGED others

\* verify_command answering false when the reference does not exist
VerifyAnchor_MissingIsFalse ==
    /\ pc = "anchor"
    /\ IF tagRef.kind = "none"
       THEN /\ Finish("false")
            /\ UNCHANGED <<fromRef, trace>>
       ELSE LET v == verify_tag(tagRef) IN
            /\ fromRef' = tagRef
            /\ trace' = trace
                 \o (IF v.engine THEN <<Event("engine", 0, "-", "-", 0)>> ELSE <<>>)
                 \o <<Event("tag", 0, v.res, v.diag, v.names)>>
            /\ IF v.res = "true"
               THEN /\ pc' = "range"
                    /\ UNCHANGED result
               ELSE Finish(v.res)
    /\ UNCHANGED <<commits, head, tagRef, config, todo, walkOrder, tagBefore>>
    /\ UNCHANGED others

\* lines 14-29: check_tag_exists, then verify_tag on the reference's target.
VerifyAnchor ==
    /\ pc = "anchor"
    /\ IF tagRef.kind = "none"
       THEN /\ Finish("error")
            /\ UNCHANGED <<fromRef, trace>>
       ELSE LET v == verify_tag(tagRef) IN
            /\ fromRef' = tagRef
            /\ trace' = trace
                 \o (IF v.engine THEN <<Event("engine", 0, "-", "-", 0)>> ELSE <<>>)
                 \o <<Event("tag", 0, v.res, v.diag, v.names)>>
            /\ IF v.res = "true"
               THEN /\ pc' = "range"
                    /\ UNCHANGED result
               ELSE Finish(v.res)
    /\ UNCHANGED <<commits, head, tagRef, config, todo, walkOrder, tagBefore>>
    /\ UNCHANGED others

\* lines 30, 99-107: HEAD, push_range, set_sorting. The second set_sorting
\* replaces the first, so the walk is the reverse of an unsorted walk, whose
\* order the library leaves unspecified.
VerifyRange ==
    /\ pc = "range"
    /\ todo' \in Orders(Range(fromRef.target, head))
    /\ walkOrder' = todo'
    /\ pc' = "walk"
    /\ UNCHANGED <<commits, head, tagRef, config, result, fromRef, trace, tagBefore>>
    /\ UNCHANGED others

\* the loop of verify_from_ref moving the tag onto each commit it verified
VerifyNext_AdvanceEach ==
    /\ pc = "walk"
    /\ todo # <<>>
    /\ LET c == Head(todo)
           v == verify_commit(c) IN
       /\ trace' = trace
            \o (IF v.engine THEN <<Event("engine", c, "-", "-", c)>> ELSE <<>>)
            \o <<Event("commit", c, v.res, v.diag, v.names)>>
            \o (IF v.res = "true" THEN <<Event("write", c, "-", "-", c)>> ELSE <<>>)
       /\ todo' = Tail(todo)
       /\ IF v.res = "true"
          THEN /\ tagRef' = TagObject(c, TRUE, "pgp_trusted")
               /\ UNCHANGED <<pc, result>>
          ELSE /\ Finish("false")
               /\ UNCHANGED tagRef
    /\ UNCHANGED <<commits, head, config, fromRef, walkOrder, tagBefore>>
    /\ UNCHANGED others

\* the loop of verify_from_ref that goes on after a commit that failed
VerifyNext_NoFailFast ==
    /\ pc = "walk"
    /\ todo # <<>>
    /\ LET c == Head(todo)
           v == verify_commit(c) IN
       /\ trace' = trace
            \o (IF v.engine THEN <<Event("engine", c, "-", "-", c)>> ELSE <<>>)
            \o <<Event("commit", c, v.res, v.diag, v.names)>>
       /\ todo' = Tail(todo)
       /\ UNCHANGED <<pc, result>>
    /\ UNCHANGED <<commits, head, tagRef, config, fromRef, walkOrder, tagBefore>>
    /\ UNCHANGED others

\* the loop of verify_from_ref giving a commit that failed a second chance
VerifyNext_RetryOnce ==
    /\ pc = "walk"
    /\ todo # <<>>
    /\ LET c == Head(todo)
           v == verify_commit(c)
           first == \A i \in DOMAIN trace : ~(trace[i].ev = "commit" /\ trace[i].id = c)
       IN
       /\ trace' = trace
            \o (IF v.engine THEN <<Event("engine", c, "-", "-", c)>> ELSE <<>>)
            \o <<Event("commit", c, v.res, v.diag, v.names)>>
       /\ IF v.res = "true"
          THEN /\ todo' = Tail(todo)
               /\ UNCHANGED <<pc, result>>
          ELSE IF first
               THEN UNCHANGED <<todo, pc, result>>
               ELSE /\ todo' = Tail(todo)
                    /\ Finish("false")
    /\ UNCHANGED <<commits, head, tagRef, config, fromRef, walkOrder, tagBefore>>
    /\ UNCHANGED others

\* lines 117-128: one turn of the loop of verify_from_ref.
VerifyNext ==
    /\ pc = "walk"
    /\ todo # <<>>
    /\ LET c == Head(todo)
           v == verify_commit(c) IN
       /\ trace' = trace
            \o (IF v.engine THEN <<Event("engine", c, "-", "-", c)>> ELSE <<>>)
            \o <<Event("commit", c, v.res, v.diag, v.names)>>
       /\ todo' = Tail(todo)
       /\ IF v.res = "true"
          THEN UNCHANGED <<pc, result>>
          ELSE Finish("false")
    /\ UNCHANGED <<commits, head, tagRef, config, fromRef, walkOrder, tagBefore>>
    /\ UNCHANGED others

\* config.rs: the name of the checkpoint tag.
TAG_NAME == "SIGN_VERIFIED"

\* git.rs 70-83: the tag's metadata, the bytes handed to sign_detached.
TagContent(c, user) ==
    [object |-> c, type |-> "commit", tag |-> TAG_NAME,
     tagger |-> <<user.name, user.email>>,
     message |-> "Verification tag managed by git-sign-verifier"]

\* git.rs 94: the bytes of the tag object, the metadata then the signature.
SignedTagContent(tag_content, signature) ==
    [content |-> tag_content, signature |-> signature]

\* add_tag that writes the tag object and leaves the reference where it was
add_tag_KeepRef(c, signed, block) ==
    LET user == read_user(config)
        r == read_or_update_local_config(config, None, None, None)
        tag_content == TagContent(c, user)
    IN  IF user.err
        THEN /\ Finish("error")
             /\ UNCHANGED <<tagRef, trace, config>>
        ELSE /\ config' = r.store
             /\ IF r.err
                THEN /\ Finish("error")
                     /\ UNCHANGED <<tagRef, trace>>
                ELSE IF ~signed
                     THEN /\ trace' = Append(trace, Event("sign", c, "failed", "-", c))
                          /\ Finish("error")
                          /\ UNCHANGED tagRef
                     ELSE /\ UNCHANGED tagRef
                          /\ trace' = Append(trace,
                                Event("sign", c, "ok", SignedTagContent(tag_content, block), c))
                          /\ Finish("true")

\* add_tag that signs the metadata without the message and writes all of it
add_tag_SignsHeaderOnly(c, signed, block) ==
    LET user == read_user(config)
        r == read_or_update_local_config(config, None, None, None)
        tag_content == TagContent(c, user)
    IN  IF user.err
        THEN /\ Finish("error")
             /\ UNCHANGED <<tagRef, trace, config>>
        ELSE /\ config' = r.store
             /\ IF r.err
                THEN /\ Finish("error")
                     /\ UNCHANGED <<tagRef, trace>>
                ELSE IF ~signed
                     THEN /\ trace' = Append(trace, Event("sign", c, "failed", "-", c))
                          /\ Finish("error")
                          /\ UNCHANGED tagRef
                     ELSE /\ tagRef' = WrittenTag(c, block, user)
                          /\ trace' = trace \o
                               <<Event("sign", c, "ok",
                                       SignedTagContent([tag_content EXCEPT !.message = ""], block), c),
                                 Event("write", c, "-",
                                       SignedTagContent(tag_content, block), c)>>
                          /\ Finish("true")

\* add_tag that, when signing fails, writes the tag without signature
add_tag_UnsignedOnFailure(c, signed, block) ==
    LET user == read_user(config)
        r == read_or_update_local_config(config, None, None, None)
        tag_content == TagContent(c, user)
    IN  IF user.err
        THEN /\ Finish("error")
             /\ UNCHANGED <<tagRef, trace, config>>
        ELSE /\ config' = r.store
             /\ IF r.err
                THEN /\ Finish("error")
                     /\ UNCHANGED <<tagRef, trace>>
                ELSE /\ tagRef' = WrittenTag(c, IF signed THEN block ELSE "none", user)
                     /\ trace' = trace \o
                          <<Event("sign", c, IF signed THEN "ok" ELSE "failed",
                                  SignedTagContent(tag_content, block), c),
                            Event("write", c, "-",
                                  SignedTagContent(tag_content, block), c)>>
                     /\ Finish("true")

\* add_tag (git.rs 61-111) on commit c: read_user, the configuration, the
\* metadata, sign_detached, the object written, the reference force-updated.
\* signed tells whether sign_detached succeeded, block is the armored
\* signature it returned. The "sign" event records what was signed and the
\* signature returned, the "write" event the bytes of the object written.
add_tag(c, signed, block) ==
    LET user == read_user(config)
        r == read_or_update_local_config(config, None, None, None)
        tag_content == TagContent(c, user)
    IN  IF user.err
        THEN /\ Finish("error")
             /\ UNCHANGED <<tagRef, trace, config>>
        ELSE /\ config' = r.store
             /\ IF r.err
                THEN /\ Finish("error")
                     /\ UNCHANGED <<tagRef, trace>>
                ELSE IF ~signed
                     THEN /\ trace' = Append(trace, Event("sign", c, "failed", "-", c))
                          /\ Finish("error")
                          /\ UNCHANGED tagRef
                     ELSE /\ tagRef' = WrittenTag(c, block, user)
                          /\ trace' = trace \o
                               <<Event("sign", c, "ok",
                                       SignedTagContent(tag_content, block), c),
                                 Event("write", c, "-",
                                       SignedTagContent(tag_content, block), c)>>
                          /\ Finish("true")

\* lines 130, 34-41: the walk is over, all_valid is true: move the tag.
VerifyAdvance ==
    /\ pc = "walk"
    /\ todo = <<>>
    /\ \E signed \in BOOLEAN, block \in {"pgp_trusted", "pgp_untrusted"} :
          add_tag(head, signed, block)
    /\ UNCHANGED <<commits, head, fromRef, todo, walkOrder, tagBefore>>
    /\ UNCHANGED others

\* The process ends; the next invocation starts afresh.
Exit ==
    /\ pc = "done"
    /\ pc' = "idle"
    /\ result' = "none"
    /\ fromRef' = NoRef
    /\ todo' = <<>>
    /\ walkOrder' = <<>>
    /\ trace' = <<>>
    /\ tagBefore' = NoRef
    /\ UNCHANGED <<commits, head, tagRef, config>>
    /\ UNCHANGED others

Next ==
    \/ GitCommit
    \/ GitCheckout
    \/ VerifyStart
    \/ VerifyAnchor
    \/ VerifyRange
    \/ VerifyNext
    \/ VerifyAdvance
    \/ Exit

Spec == Init /\ [][Next]_vars

-----------------------------------------------------------------------------
(* What an invocation did, read off its trace.                             *)

EventIdx(e) == {i \in DOMAIN trace : trace[i].ev = e}

\* The commits verify_commit returned for, so far.
Evaluated == {trace[i].id : i \in EventIdx("commit")}

\* The verdict Trusted: a PGP block the engine could verify and whose result
\* gpg.rs accepts. Every other block is Unsigned, UntrustedOrInvalid,
\* UnsupportedSignatureScheme, UnknownSignatureMarker or EngineError.
TrustedBlock(b) ==
    /\ FirstLine(b) = PGP_MARKER
    /\ ~EngineVerifyDetached(b).err
    /\ verify_gpg_signature_result(EngineVerifyDetached(b).sigs) = "Ok"
IsTrusted(c) == TrustedBlock(commits[c].gpgsig)

\* The tagger's name and email are set; user.name and user.email are set.
TaggerConfigured == config.taggername # None /\ config.taggeremail # None
UserConfigured == config.username # None /\ config.useremail # None

\* The checkpoint the invocation found is an annotated tag readable as text.
ReadableTag(ref) == ref.kind = "tag" /\ ref.utf8

\* The range of the invocation: reachable from HEAD, not from the target of
\* the checkpoint it started with.
RangeBefore == Ancestors(head) \ Ancestors(tagBefore.target)

Done == pc = "done"

-----------------------------------------------------------------------------
(* C1. All-or-nothing advancement: when the invocation started with a      *)
(* checkpoint and at least one commit of the range is not Trusted, the     *)
(* invocation does not return true, writes nothing, and the reference      *)
(* points at the object it pointed at before. It returns false, unless it  *)
(* stopped on an operational error before any commit was evaluated.       *)
C1_AllOrNothing ==
    (Done /\ tagBefore.kind # "none" /\ \E c \in RangeBefore : ~IsTrusted(c))
        => /\ tagRef = tagBefore
           /\ EventIdx("write") = {}
           /\ result \in {"false", "error"}
           /\ result = "error" => Evaluated = {}

\* The pass evaluated a Trusted commit, then met a commit that is not, and
\* ended false.
C1_Witness ==
    /\ Done /\ result = "false"
    /\ \E c \in RangeBefore : ~IsTrusted(c)
    /\ \E i \in EventIdx("commit") : trace[i].verdict = "true"
    /\ \E i \in EventIdx("commit") : trace[i].verdict # "true"

(* C2. Whenever the reference is written, every commit reachable from the  *)
(* new target and not from the previous checkpoint's target was evaluated  *)
(* earlier in the same invocation with verdict true, and is Trusted; the   *)
(* reference only differs from what it was after such a write.             *)
C2_AdvanceOnlyOverVerified ==
    /\ \A w \in EventIdx("write") :
          /\ tagRef.target = trace[w].id
          /\ \A c \in Ancestors(trace[w].id) \ Ancestors(tagBefore.target) :
                /\ IsTrusted(c)
                /\ \E i \in 1..(w - 1) :
                      /\ trace[i].ev = "commit"
                      /\ trace[i].id = c
                      /\ trace[i].verdict = "true"
    /\ (pc # "idle" /\ tagRef # tagBefore) => EventIdx("write") # {}

\* The checkpoint advanced over two commits, one of them a merge.
C2_Witness ==
    /\ Done /\ EventIdx("write") # {}
    /\ Cardinality(Ancestors(tagRef.target) \ Ancestors(tagBefore.target)) >= 2
    /\ \E c \in Ancestors(tagRef.target) \ Ancestors(tagBefore.target) :
          Cardinality(commits[c].parents) = 2

(* C3. When the checkpoint found is a tag with a Trusted signature and     *)
(* every commit of the range is Trusted, the invocation returns true and   *)
(* the reference then points at a tag on the HEAD commit, written once.    *)
(* The only other ending is an operational error (a configuration key is   *)
(* missing, or signing the new tag failed), which leaves the reference as  *)
(* it was.                                                                 *)
C3_AllTrustedAdvances ==
    (Done /\ ReadableTag(tagBefore) /\ TrustedBlock(tagBefore.sig)
          /\ \A c \in RangeBefore : IsTrusted(c))
        => \/ /\ result = "true"
              /\ tagRef.kind = "tag"
              /\ tagRef.target = head
              /\ Cardinality(EventIdx("write")) = 1
           \/ /\ result = "error"
              /\ tagRef = tagBefore
              /\ \/ ~TaggerConfigured
                 \/ ~UserConfigured
                 \/ \E i \in EventIdx("sign") : trace[i].verdict = "failed"

\* The checkpoint moved from an older commit onto HEAD.
C3_Witness ==
    /\ Done /\ result = "true"
    /\ TrustedBlock(tagBefore.sig)
    /\ tagBefore.target # head
    /\ tagRef.target = head

\* The checkpoints C4 is about: a lightweight tag, an annotated tag without
\* signature block, an annotated tag whose signature is not Trusted.
RejectedCheckpoint(ref) ==
    \/ ref.kind = "commit"
    \/ ReadableTag(ref) /\ ~TrustedBlock(ref.sig)

(* C4. The checkpoint is verified before any commit: verify_commit only    *)
(* runs after verify_tag returned true. When the checkpoint is a           *)
(* lightweight tag, has no signature block or a signature that is not      *)
(* Trusted, no commit is evaluated, the reference is not written, and the  *)
(* invocation returns false (or had stopped before, on a missing           *)
(* configuration key).                                                     *)
C4_CheckpointFirst ==
    /\ \A i \in EventIdx("commit") :
          \E j \in 1..(i - 1) : trace[j].ev = "tag" /\ trace[j].verdict = "true"
    /\ (Done /\ RejectedCheckpoint(tagBefore))
          => /\ Evaluated = {}
             /\ EventIdx("write") = {}
             /\ tagRef = tagBefore
             /\ \/ result = "false" /\ \E j \in EventIdx("tag") : trace[j].verdict = "false"
                \/ result = "error" /\ ~TaggerConfigured /\ trace = <<>>

\* A checkpoint with an untrusted signature stopped a pass that had Trusted
\* commits waiting.
C4_Witness ==
    /\ Done /\ result = "false"
    /\ ReadableTag(tagBefore) /\ tagBefore.sig = "pgp_untrusted"
    /\ RangeBefore # {}
    /\ \A c \in RangeBefore : IsTrusted(c)

\* A Trusted merge commit of the range, one of whose parents has in its
\* history a commit of the range that is not Trusted.
UntrustedBehindMerge ==
    \E m \in RangeBefore :
        /\ Cardinality(commits[m].parents) = 2
        /\ IsTrusted(m)
        /\ \E p \in commits[m].parents :
              \E c \in Ancestors(p) \cap RangeBefore : ~IsTrusted(c)

(* C5. The range the walk enumerates is every commit reachable from HEAD   *)
(* and not from the checkpoint's target, side branches of merges included; *)
(* a pass that returns true evaluated all of them. A Trusted merge commit  *)
(* with a non-Trusted commit in a parent's history outside the             *)
(* checkpoint's ancestry makes the invocation return false (or it had      *)
(* stopped on an operational error before the walk).                       *)
C5_SideBranchesInRange ==
    /\ pc = "walk" => {walkOrder[i] : i \in DOMAIN walkOrder} = RangeBefore
    /\ (Done /\ result = "true") => Evaluated = RangeBefore
    /\ (Done /\ tagBefore.kind # "none" /\ UntrustedBehindMerge)
          => \/ result = "false"
             \/ result = "error" /\ Evaluated = {}

\* The walk reached the non-Trusted commit of the side branch and ended false.
C5_Witness ==
    /\ Done /\ result = "false"
    /\ tagBefore.kind # "none" /\ UntrustedBehindMerge
    /\ \E i \in EventIdx("commit") : trace[i].verdict # "true"

IsCommitEvent(e) == e.ev = "commit"
CommitEvents == SelectSeq(trace, IsCommitEvent)

(* C6. Fail-fast: commits are evaluated one at a time in the order of the  *)
(* walk, each at most once; a verdict other than true is the last          *)
(* evaluation of the invocation, which ends false there, and its           *)
(* diagnostic names that commit.                                           *)
C6_FailFast ==
    /\ Len(CommitEvents) <= Len(walkOrder)
    /\ \A k \in DOMAIN CommitEvents : CommitEvents[k].id = walkOrder[k]
    /\ pc = "walk" => walkOrder = [k \in DOMAIN CommitEvents |-> CommitEvents[k].id] \o todo
    /\ \A k \in DOMAIN CommitEvents :
          CommitEvents[k].verdict # "true"
             => /\ k = Len(CommitEvents)
                /\ Done /\ result = "false"
                /\ CommitEvents[k].names = walkOrder[k]

\* The first commit of the walk failed and the one after it was left alone.
C6_Witness ==
    /\ Done /\ result = "false"
    /\ Len(CommitEvents) = 1
    /\ Len(walkOrder) = 2
    /\ todo # <<>>

(* C7. Within one invocation the reference is written at most once; the    *)
(* write comes after verify_tag returned true and after verify_commit      *)
(* returned true for every commit of the range, and it is the last step:   *)
(* nothing is verified after it.                                           *)
C7_SingleWriteLast ==
    /\ Cardinality(EventIdx("write")) <= 1
    /\ \A w \in EventIdx("write") :
          /\ w = Len(trace)
          /\ todo = <<>>
          /\ \E j \in 1..(w - 1) : trace[j].ev = "tag" /\ trace[j].verdict = "true"
          /\ \A c \in RangeBefore :
                \E i \in 1..(w - 1) :
                    trace[i].ev = "commit" /\ trace[i].id = c /\ trace[i].verdict = "true"
    /\ (pc # "idle" /\ EventIdx("write") = {}) => tagRef = tagBefore

\* A write that followed the verification of the tag and of two commits.
C7_Witness ==
    /\ Done
    /\ Cardinality(EventIdx("write")) = 1
    /\ Len(CommitEvents) = 2

(* C8. When the checkpoint reference does not exist, the invocation ends   *)
(* with an operational error, not with false; it verifies nothing and      *)
(* creates no checkpoint.                                                  *)
C8_MissingCheckpoint ==
    (Done /\ tagBefore.kind = "none")
        => /\ result = "error"
           /\ trace = <<>>
           /\ tagRef.kind = "none"

\* No reference, configuration in place, commits that could have been walked.
C8_Witness ==
    /\ Done /\ result = "error"
    /\ tagBefore.kind = "none"
    /\ TaggerConfigured
    /\ Len(commits) >= 2

\* The block an event is about: the checkpoint's for id 0, else the commit's.
BlockOf(id) == IF id = 0 THEN tagBefore.sig ELSE commits[id].gpgsig

(* C9. A block whose first line is the SSH marker never reaches the        *)
(* engine: verify_detached is only called on PGP blocks. A commit with an  *)
(* SSH block gets the verdict false with the unsupported-scheme            *)
(* diagnostic, and a range holding such a commit makes the invocation      *)
(* return false (or it had stopped on an operational error before the      *)
(* walk).                                                                  *)
C9_SshRejectedWithoutEngine ==
    /\ \A i \in EventIdx("engine") : FirstLine(BlockOf(trace[i].id)) = PGP_MARKER
    /\ \A i \in EventIdx("commit") :
          commits[trace[i].id].gpgsig = "ssh"
             => /\ trace[i].verdict = "false"
                /\ trace[i].diag = "unsupported SSH signature"
    /\ (Done /\ tagBefore.kind # "none" /\ \E c \in RangeBefore : commits[c].gpgsig = "ssh")
          => \/ result = "false"
             \/ result = "error" /\ Evaluated = {}

\* The walk met a commit with an SSH block after the engine had been used
\* on the checkpoint.
C9_Witness ==
    /\ Done /\ result = "false"
    /\ \E i \in EventIdx("commit") : commits[trace[i].id].gpgsig = "ssh"
    /\ EventIdx("engine") # {}

(* C10. A checkpoint whose trailing text starts with a marker that is      *)
(* neither the PGP nor the SSH one is rejected: the invocation returns     *)
(* false (unless it stopped before on a missing configuration key), the    *)
(* engine is not called, nothing is evaluated or written, and the          *)
(* diagnostic differs from that of a checkpoint without signature block.   *)
C10_UnknownMarkerCheckpoint ==
    (Done /\ ReadableTag(tagBefore) /\ tagBefore.sig = "unknown")
        => /\ EventIdx("engine") = {}
           /\ Evaluated = {}
           /\ tagRef = tagBefore
           /\ \/ /\ result = "false"
                 /\ \E j \in EventIdx("tag") :
                       /\ trace[j].verdict = "false"
                       /\ trace[j].diag = "unknown signature type"
                       /\ trace[j].diag
                            # verify_tag(TagObject(tagBefore.target, TRUE, "none")).diag
              \/ result = "error" /\ ~TaggerConfigured /\ trace = <<>>

\* The checkpoint with the unknown marker was examined and rejected.
C10_Witness ==
    /\ Done /\ result = "false"
    /\ ReadableTag(tagBefore) /\ tagBefore.sig = "unknown"
    /\ EventIdx("tag") # {}

\* The strict ancestors of a commit (none for the target 0 of no reference).
StrictAncestors(c) == IF c \in Ids THEN Ancestors(c) \ {c} ELSE {}

(* C13. The checkpoint is never rolled back: no invocation moves the       *)
(* reference onto a commit that is a strict ancestor of the commit the     *)
(* checkpoint targeted when the invocation started.                        *)
C13_NeverRolledBack ==
    EventIdx("write") # {} => tagRef.target \notin StrictAncestors(tagBefore.target)

(* C17. The verification path never mutates the configuration: no step of *)
(* verify_command, whatever its outcome, changes the value of a            *)
(* configuration key.                                                      *)
C17_ConfigUntouched ==
    [][(pc # "idle" \/ pc' # "idle") => config' = config]_vars

\* An invocation that resolved the configuration twice (at its start and in
\* add_tag), found no keyring home, moved the checkpoint, and left the key
\* unset.
C17_Witness ==
    /\ Done /\ result = "true"
    /\ EventIdx("write") # {}
    /\ config.gpgmehomedir = None

(* C19. The range is evaluated parents first: a commit is evaluated only   *)
(* after every one of its parents that belongs to the range has been       *)
(* evaluated.                                                              *)
C19_ParentsFirst ==
    \A k \in DOMAIN CommitEvents :
        \A p \in commits[CommitEvents[k].id].parents \cap RangeBefore :
            \E j \in 1..(k - 1) : CommitEvents[j].id = p

-----------------------------------------------------------------------------
(* GpgSpec: verify_gpg_signature_result applied to every verification      *)
(* result of up to MaxSigs signer outcomes, in every order of them.        *)

\* Largest number of signer outcomes in one verification result.
MaxSigs == 2

\* The failure flags of a signer outcome, and the validities of a key.
FailureFlags == {"KEY_REVOKED", "KEY_EXPIRED", "SIG_EXPIRED", "KEY_MISSING"}
Validities == {"Unknown", "Undefined", "Never", "Marginal", "Full", "Ultimate"}

\* The signer outcomes the engine reports: the summary is VALID alone, or
\* any set of failure flags (none for a bad signature), with any validity of
\* the key.
SignerOutcomes ==
    [summary : {{"VALID"}} \cup SUBSET FailureFlags, validity : Validities]

\* The repository and the command, at rest while a function is examined.
RepoIdle ==
    /\ commits = <<>>
    /\ head = 0
    /\ tagRef = NoRef
    /\ config = Store(None, None, None, None, None)
    /\ pc = "idle"
    /\ result = "none"
    /\ fromRef = NoRef
    /\ todo = <<>>
    /\ walkOrder = <<>>
    /\ trace = <<>>
    /\ tagBefore = NoRef

\* gpgFirst: out is "Ok" or "Err" as the first ordering was judged, permuted
\* tells whether the outcomes were reordered since.
NotJudged == [out |-> None, permuted |-> FALSE]

GpgInit ==
    /\ signatures = <<>>
    /\ gpgOut = None
    /\ gpgFirst = NotJudged
    /\ RepoIdle /\ InitIdle /\ MainIdle /\ CfgIdle /\ DataIdle /\ TagIdle

\* The engine reports one more signer outcome, any of them.
GpgSigner ==
    /\ gpgOut = None
    /\ gpgFirst = NotJudged
    /\ Len(signatures) < MaxSigs
    /\ \E sig \in SignerOutcomes : signatures' = Append(signatures, sig)
    /\ UNCHANGED <<gpgOut, gpgFirst, repoVars, initVars, exitCode, cfgVars, dataVars, tagVars>>

\* The result is handed to verify_gpg_signature_result.
GpgVerify ==
    /\ gpgOut = None
    /\ gpgOut' = verify_gpg_signature_result(signatures)
    /\ gpgFirst' = IF gpgFirst = NotJudged
                   THEN [out |-> IF gpgOut' = "Ok" THEN "Ok" ELSE "Err", permuted |-> FALSE]
                   ELSE gpgFirst
    /\ UNCHANGED <<signatures, repoVars, initVars, exitCode, cfgVars, dataVars, tagVars>>

\* The engine reports the same signer outcomes in another order.
GpgPermute ==
    /\ gpgOut # None
    /\ ~gpgFirst.permuted
    /\ \E p \in Orders(DOMAIN signatures) :
          /\ signatures' = [i \in DOMAIN signatures |-> signatures[p[i]]]
          /\ signatures' # signatures
    /\ gpgOut' = None
    /\ gpgFirst' = [gpgFirst EXCEPT !.permuted = TRUE]
    /\ UNCHANGED <<repoVars, initVars, exitCode, cfgVars, dataVars, tagVars>>

GpgNext == GpgSigner \/ GpgVerify \/ GpgPermute

GpgSpec == GpgInit /\ [][GpgNext]_vars

\* A signer outcome that carries no failure flag.
CleanSigner(sig) == sig.summary \cap FailureFlags = {}

(* C11. A verification result is judged Trusted only if at least one of    *)
(* its signer outcomes carries none of the failure flags (key revoked, key *)
(* expired, signature expired, key missing): a result whose every signer   *)
(* outcome carries one is never Trusted.                                   *)
C11_TrustedNeedsCleanSigner ==
    gpgOut = "Ok" => \E i \in DOMAIN signatures : CleanSigner(signatures[i])

(* C20. The Trusted / not-Trusted answer is the same for every order of    *)
(* the signer outcomes of a result, and each signer outcome is evaluated   *)
(* on its own: the result is Trusted exactly when one of its signer        *)
(* outcomes, alone in a result, is Trusted, whatever flags the others have.*)
C20_OrderIndependent ==
    gpgOut # None
        => /\ (gpgOut = "Ok") <=> (gpgFirst.out = "Ok")
           /\ (gpgOut = "Ok")
                <=> \E i \in DOMAIN signatures :
                       verify_gpg_signature_result(<<signatures[i]>>) = "Ok"

\* A revoked untrusted signer first and a fully valid one second, judged
\* after the two had been judged in the other order.
C20_Witness ==
    /\ gpgOut = "Ok"
    /\ Len(signatures) = 2
    /\ gpgFirst.permuted
    /\ "KEY_REVOKED" \in signatures[1].summary
    /\ signatures[1].validity = "Unknown"
    /\ signatures[2].validity = "Full"

-----------------------------------------------------------------------------
(* ConfigSpec: read_or_update_local_config called again and again on a     *)
(* local configuration, with every choice of provided values.              *)

\* The configuration starts with any of the three keys unset or set to "a".
CfgInit ==
    /\ config \in {Store(n, e, d, "a", "a") : n, e, d \in {None, "a"}}
    /\ cfgCall = NoCall
    /\ cfgProvided = NothingProvided
    /\ commits = <<>> /\ head = 0 /\ tagRef = NoRef /\ pc = "idle" /\ result = "none"
    /\ fromRef = NoRef /\ todo = <<>> /\ walkOrder = <<>> /\ trace = <<>>
    /\ tagBefore = NoRef
    /\ InitIdle /\ MainIdle /\ GpgIdle /\ DataIdle /\ TagIdle

\* One call. cfgProvided.any keeps, per setting, the value last provided to
\* a call; cfgProvided.ok the value last provided to a call that returned Ok.
ReadOrUpdate ==
    \E n, e, d \in {None} \cup Values :
        LET r == read_or_update_local_config(config, n, e, d)
            args == [s \in Settings |->
                        CASE s = "name" -> n [] s = "email" -> e [] OTHER -> d]
            Latest(old) == [s \in Settings |-> IF args[s] # None THEN args[s] ELSE old[s]]
        IN  /\ config' = r.store
            /\ cfgCall' = [made |-> TRUE, args |-> args, before |-> config, ret |-> r]
            /\ cfgProvided' = [any |-> Latest(cfgProvided.any),
                                ok |-> IF r.err THEN cfgProvided.ok
                                       ELSE Latest(cfgProvided.ok)]
            /\ UNCHANGED <<commits, head, tagRef, pc, result, fromRef, todo, walkOrder,
                           trace, tagBefore, initVars, exitCode, gpgVars, dataVars, tagVars>>

CfgNext == ReadOrUpdate

ConfigSpec == CfgInit /\ [][CfgNext]_vars

\* What the last call returned for a setting.
Returned(setting) ==
    CASE setting = "name" -> cfgCall.ret.name
      [] setting = "email" -> cfgCall.ret.email
      [] setting = "gpgme_home_dir" -> cfgCall.ret.gpgme_home_dir

\* The claim's last part: a keyring home neither provided nor set is None, a
\* name or email neither provided nor set is an error.
MissingSettings ==
    cfgCall.made
        => /\ (cfgCall.args["gpgme_home_dir"] = None /\ cfgCall.before.gpgmehomedir = None
                  /\ ~cfgCall.ret.err)
                 => cfgCall.ret.gpgme_home_dir = None
           /\ (cfgCall.args["name"] = None /\ cfgCall.before.taggername = None)
                 => cfgCall.ret.err
           /\ (cfgCall.args["email"] = None /\ cfgCall.before.taggeremail = None)
                 => cfgCall.ret.err

(* C16 as stated. After a call that provides a value for a setting the     *)
(* value is persisted; a later call that provides none for that setting    *)
(* returns the value last provided; a missing keyring home yields None, a  *)
(* missing name or email an error.                                         *)
C16_RoundTripAnyCall ==
    /\ cfgCall.made
          => \A s \in Settings :
                /\ cfgCall.args[s] # None => config[KeyOf(s)] = cfgCall.args[s]
                /\ (cfgCall.args[s] = None /\ cfgProvided.any[s] # None /\ ~cfgCall.ret.err)
                      => Returned(s) = cfgProvided.any[s]
    /\ MissingSettings

(* C16, amended. After a call that returns Ok, every value it was given is *)
(* persisted and returned; a later call that provides no value for that    *)
(* setting returns Ok with the persisted value; a missing keyring home     *)
(* yields None, a missing name or email an error. A call that returns Err  *)
(* leaves the keyring home as it was, and changes the name only when the   *)
(* name was provided and the email is what is missing.                     *)
C16_RoundTrip ==
    /\ (cfgCall.made /\ ~cfgCall.ret.err)
          => \A s \in Settings :
                /\ cfgCall.args[s] # None
                      => config[KeyOf(s)] = cfgCall.args[s] /\ Returned(s) = cfgCall.args[s]
                /\ cfgCall.args[s] = None
                      => config[KeyOf(s)] = cfgCall.before[KeyOf(s)]
                /\ (cfgCall.args[s] = None /\ cfgProvided.ok[s] # None)
                      => Returned(s) = cfgProvided.ok[s]
    /\ (cfgCall.made /\ cfgProvided.ok["name"] # None) => ~cfgCall.ret.err
    /\ (cfgCall.made /\ cfgCall.ret.err)
          => /\ config.gpgmehomedir = cfgCall.before.gpgmehomedir
             /\ config.taggeremail = cfgCall.before.taggeremail
             /\ config.taggername # cfgCall.before.taggername
                   => /\ config.taggername = cfgCall.args["name"]
                      /\ cfgCall.args["email"] = None
                      /\ cfgCall.before.taggeremail = None
    /\ MissingSettings

\* A call that provided nothing returned the three values "b" that an
\* earlier call had provided.
C16_Witness ==
    /\ cfgCall.made /\ ~cfgCall.ret.err
    /\ \A s \in Settings :
          cfgCall.args[s] = None /\ cfgProvided.ok[s] = "b" /\ Returned(s) = "b"

-----------------------------------------------------------------------------
(* InitSpec: init_command (init.rs) on a repository of up to MaxCommits    *)
(* commits in a line, with or without a checkpoint, whose commits hold the *)
(* authorized-keys file, hold a directory at its path, or hold nothing.    *)
(* result "true" stands for Ok(()).                                        *)

\* What a commit's tree holds at the path of the authorized-keys file.
TreeEntries == {"blob", "dir", "absent"}

\* git.rs 29-47: Some(content) for a blob, None when the path is missing or
\* is not a file.
get_file_content_from_commit(c) == IF trees[c] = "blob" THEN "Some" ELSE None

\* A line of n commits, each the child of the one before.
Line(n) == [i \in 1..n |-> [parents |-> IF i = 1 THEN {} ELSE {i - 1},
                            gpgsig |-> "pgp_trusted"]]

InitRepo ==
    /\ \E n \in 1..MaxCommits :
          /\ commits = Line(n)
          /\ head \in 1..n
          /\ trees \in [1..n -> TreeEntries]
    /\ tagRef \in {NoRef, LightweightTag(1), TagObject(1, TRUE, "pgp_trusted")}
    /\ config \in {Store(n, "a", d, u, "a") : n, d, u \in {None, "a"}}
    /\ pc = "idle"
    /\ result = "none"
    /\ fromRef = NoRef
    /\ todo = <<>>
    /\ walkOrder = <<>>
    /\ trace = <<>>
    /\ tagBefore = NoRef
    /\ gpgme_home_dir = None
    /\ MainIdle /\ GpgIdle /\ CfgIdle /\ DataIdle /\ TagIdle

\* init_command that resolves and persists the configuration before it
\* looks for the authorized-keys file
InitStart_ConfigFirst ==
    /\ pc = "idle"
    /\ tagBefore' = tagRef
    /\ \E dir \in {None} \cup Values :
          /\ gpgme_home_dir' = dir
          /\ IF tagRef.kind # "none"
             THEN /\ Finish("error")
                  /\ UNCHANGED config
             ELSE LET r == read_or_update_local_config(config, None, None, dir) IN
                  /\ config' = r.store
                  /\ IF r.err \/ get_file_content_from_commit(head) = None
                     THEN Finish("error")
                     ELSE /\ pc' = "init_tag"
                          /\ UNCHANGED result
    /\ UNCHANGED <<commits, head, tagRef, fromRef, todo, walkOrder, trace, trees>>
    /\ UNCHANGED <<exitCode, gpgVars, cfgVars, dataVars, tagVars>>

\* init_command that resolves and persists the configuration before it
\* checks that the checkpoint does not exist yet
InitStart_ConfigBeforeTag ==
    /\ pc = "idle"
    /\ tagBefore' = tagRef
    /\ \E dir \in {None} \cup Values :
          LET r == read_or_update_local_config(config, None, None, dir) IN
          /\ gpgme_home_dir' = dir
          /\ config' = r.store
          /\ IF tagRef.kind # "none" \/ get_file_content_from_commit(head) = None \/ r.err
             THEN Finish("error")
             ELSE /\ pc' = "init_tag"
                  /\ UNCHANGED result
    /\ UNCHANGED <<commits, head, tagRef, fromRef, todo, walkOrder, trace, trees>>
    /\ UNCHANGED <<exitCode, gpgVars, cfgVars, dataVars, tagVars>>

\* init.rs 8-30: the checkpoint must not exist, the HEAD commit must hold
\* the authorized-keys file, then the configuration is resolved with the
\* keyring home given on the command line.
InitStart ==
    /\ pc = "idle"
    /\ tagBefore' = tagRef
    /\ \E dir \in {None} \cup Values :
          /\ gpgme_home_dir' = dir
          /\ IF tagRef.kind # "none"
             THEN /\ Finish("error")
                  /\ UNCHANGED config
             ELSE IF get_file_content_from_commit(head) = None
                  THEN /\ Finish("error")
                       /\ UNCHANGED config
                  ELSE LET r == read_or_update_local_config(config, None, None, dir) IN
                       /\ config' = r.store
                       /\ IF r.err
                          THEN Finish("error")
                          ELSE /\ pc' = "init_tag"
                               /\ UNCHANGED result
    /\ UNCHANGED <<commits, head, tagRef, fromRef, todo, walkOrder, trace, trees>>
    /\ UNCHANGED <<exitCode, gpgVars, cfgVars, dataVars, tagVars>>

\* init.rs 32-37: add_tag on the HEAD commit.
InitTag ==
    /\ pc = "init_tag"
    /\ \E signed \in BOOLEAN, block \in {"pgp_trusted", "pgp_untrusted"} :
          add_tag(head, signed, block)
    /\ UNCHANGED <<commits, head, fromRef, todo, walkOrder, tagBefore>>
    /\ UNCHANGED others

InitNext ==
    \/ InitStart
    \/ InitTag
    \/ Exit

InitSpec == InitRepo /\ [][InitNext]_vars

(* C14. init_command fails when the HEAD commit does not hold the          *)
(* authorized-keys file (the path is missing, or is not a file); it then   *)
(* creates no checkpoint reference and persists no configuration value.    *)
C14_InitNeedsAuthorizedKeys ==
    [][(pc = "idle" /\ pc' # "idle" /\ get_file_content_from_commit(head) = None)
          => /\ pc' = "done"
             /\ result' = "error"
             /\ tagRef' = tagRef
             /\ config' = config
             /\ trace' = <<>>]_vars

\* Nothing but the missing file kept init from succeeding: no checkpoint
\* yet, the configuration complete, a keyring home given that is not the one
\* persisted. It failed, and neither reference nor configuration changed.
C14_Witness ==
    /\ Done /\ result = "error"
    /\ get_file_content_from_commit(head) = None
    /\ tagBefore = NoRef /\ tagRef = NoRef
    /\ TaggerConfigured /\ UserConfigured
    /\ gpgme_home_dir = "b" /\ config.gpgmehomedir = "a"

(* C15. After a successful init_command on a repository without            *)
(* checkpoint, the reference exists and points at a tag object whose       *)
(* target is the HEAD commit and whose bytes are the tag's metadata        *)
(* followed by an armored PGP signature: the signature sign_detached       *)
(* returned for exactly those metadata bytes.                              *)
C15_InitCreatesSignedTag ==
    (Done /\ result = "true")
        => /\ tagBefore = NoRef
           /\ tagRef.kind = "tag"
           /\ tagRef.target = head
           /\ FirstLine(tagRef.sig) = PGP_MARKER
           /\ \E g, w \in DOMAIN trace :
                 /\ g < w /\ w = Len(trace)
                 /\ trace[g].ev = "sign" /\ trace[g].verdict = "ok"
                 /\ trace[w].ev = "write"
                 /\ trace[w].diag.content.object = head
                 /\ trace[w].diag.content.type = "commit"
                 /\ trace[w].diag.content.tag = TAG_NAME
                 /\ trace[w].diag.signature = tagRef.sig
                 /\ trace[g].diag = trace[w].diag

\* The first checkpoint was created on the second commit of the line.
C15_Witness ==
    /\ Done /\ result = "true"
    /\ tagBefore = NoRef
    /\ head = 2
    /\ tagRef.target = 2

(* C29. init_command fails when the checkpoint reference already exists;   *)
(* the existing reference and the persisted configuration are then left    *)
(* unchanged, and nothing was signed or written.                           *)
C29_InitRefusesExistingCheckpoint ==
    [][(pc = "idle" /\ pc' # "idle" /\ tagRef.kind # "none")
          => /\ pc' = "done"
             /\ result' = "error"
             /\ tagRef' = tagRef
             /\ config' = config
             /\ trace' = <<>>]_vars

\* Nothing but the checkpoint kept init from succeeding: the HEAD commit
\* holds the authorized-keys file, the configuration is complete, and a
\* keyring home was given where none is persisted. It failed, and the tag
\* and the configuration are as they were.
C29_Witness ==
    /\ Done /\ result = "error"
    /\ tagBefore = TagObject(1, TRUE, "pgp_trusted") /\ tagRef = tagBefore
    /\ get_file_content_from_commit(head) # None
    /\ TaggerConfigured /\ UserConfigured
    /\ gpgme_home_dir = "b" /\ config.gpgmehomedir = None

-----------------------------------------------------------------------------
(* DataSpec: signed_commit_data (verify.rs 48-90) applied to every header  *)
(* of up to MaxHeader bytes and every body of up to MaxBody bytes. A byte  *)
(* is a line feed, a space, any other byte ("x"), or the six bytes of the  *)
(* word gpgsig taken as one.                                               *)

\* Largest header and body, in bytes.
MaxHeader == 6
MaxBody == 1

LF == "\n"
SP == " "
Bytes == {LF, SP, "x", "gpgsig"}

\* b"gpgsig "
GPGSIG_PREFIX == <<"gpgsig", SP>>

\* line_buf.starts_with(prefix)
StartsWith(line_buf, prefix) ==
    /\ Len(line_buf) >= Len(prefix)
    /\ SubSeq(line_buf, 1, Len(prefix)) = prefix

\* cursor.read_until(b'\n', ..): the number of bytes read from rest, through
\* the first line feed, or to the end when there is none.
read_until(rest) ==
    IF \E i \in DOMAIN rest : rest[i] = LF
    THEN CHOOSE i \in DOMAIN rest :
            rest[i] = LF /\ \A j \in 1..(i - 1) : rest[j] # LF
    ELSE Len(rest)

RECURSIVE FilterHeader_NoReset(_, _, _)
\* the loop that never leaves the gpgsig header once it entered it
FilterHeader_NoReset(rest, in_gpgsig_header, filtered_header_bytes) ==
    IF read_until(rest) = 0
    THEN filtered_header_bytes
    ELSE LET line_buf == SubSeq(rest, 1, read_until(rest))
             next == SubSeq(rest, read_until(rest) + 1, Len(rest))
         IN  IF StartsWith(line_buf, GPGSIG_PREFIX)
             THEN FilterHeader_NoReset(next, TRUE, filtered_header_bytes)
             ELSE IF in_gpgsig_header /\ StartsWith(line_buf, <<SP>>)
                  THEN FilterHeader_NoReset(next, in_gpgsig_header, filtered_header_bytes)
                  ELSE FilterHeader_NoReset(next, in_gpgsig_header,
                                            filtered_header_bytes \o line_buf)

RECURSIVE FilterHeader(_, _, _)
\* verify.rs 56-82: the loop over the header's lines, rest being what the
\* cursor has not read yet.
FilterHeader(rest, in_gpgsig_header, filtered_header_bytes) ==
    IF read_until(rest) = 0
    THEN filtered_header_bytes
    ELSE LET line_buf == SubSeq(rest, 1, read_until(rest))
             next == SubSeq(rest, read_until(rest) + 1, Len(rest))
         IN  IF StartsWith(line_buf, GPGSIG_PREFIX)
             THEN FilterHeader(next, TRUE, filtered_header_bytes)
             ELSE IF in_gpgsig_header /\ StartsWith(line_buf, <<SP>>)
                  THEN FilterHeader(next, in_gpgsig_header, filtered_header_bytes)
                  ELSE FilterHeader(next, FALSE, filtered_header_bytes \o line_buf)

\* verify.rs 84-89: the filtered header, one line feed, the message.
signed_commit_data(raw_header_bytes, message_raw_bytes) ==
    FilterHeader(raw_header_bytes, FALSE, <<>>) \o <<LF>> \o message_raw_bytes

DataInit ==
    /\ header = <<>>
    /\ body = <<>>
    /\ payload = NoPayload
    /\ RepoIdle /\ InitIdle /\ MainIdle /\ GpgIdle /\ CfgIdle /\ TagIdle

\* The commit's header is one byte longer.
DataHeaderByte ==
    /\ ~payload.done
    /\ body = <<>>
    /\ Len(header) < MaxHeader
    /\ \E b \in Bytes : header' = Append(header, b)
    /\ UNCHANGED <<body, payload, repoVars, initVars, exitCode, gpgVars, cfgVars, tagVars>>

\* The commit's message is one byte longer.
DataBodyByte ==
    /\ ~payload.done
    /\ Len(body) < MaxBody
    /\ \E b \in Bytes : body' = Append(body, b)
    /\ UNCHANGED <<header, payload, repoVars, initVars, exitCode, gpgVars, cfgVars, tagVars>>

\* signed_commit_data is called on the commit.
SignedCommitData ==
    /\ ~payload.done
    /\ payload' = [done |-> TRUE, bytes |-> signed_commit_data(header, body)]
    /\ UNCHANGED <<header, body, repoVars, initVars, exitCode, gpgVars, cfgVars, tagVars>>

DataNext == DataHeaderByte \/ DataBodyByte \/ SignedCommitData

DataSpec == DataInit /\ [][DataNext]_vars

\* The positions where the lines of the header start.
LineStarts == {i \in DOMAIN header : i = 1 \/ header[i - 1] = LF}
\* The line that starts at position s: through its line feed, or to the end.
LineAt(s) == SubSeq(header, s, s + read_until(SubSeq(header, s, Len(header))) - 1)
\* The start of the line that byte i belongs to.
LineStartOf(i) == CHOOSE s \in LineStarts : s <= i /\ \A t \in LineStarts : t <= i => t <= s

\* The line at s is omitted: it begins with the signature keyword, or it
\* begins with a space and follows such a line with only lines that begin
\* with a space in between.
Omitted(s) ==
    \/ StartsWith(LineAt(s), GPGSIG_PREFIX)
    \/ /\ StartsWith(LineAt(s), <<SP>>)
       /\ \E t \in LineStarts :
             /\ t < s
             /\ StartsWith(LineAt(t), GPGSIG_PREFIX)
             /\ \A u \in LineStarts : (t < u /\ u < s) => StartsWith(LineAt(u), <<SP>>)

RECURSIVE KeptFrom(_)
\* The bytes of the header from position i on that belong to lines not
\* omitted, in their order.
KeptFrom(i) ==
    IF i > Len(header)
    THEN <<>>
    ELSE (IF Omitted(LineStartOf(i)) THEN <<>> ELSE <<header[i]>>) \o KeptFrom(i + 1)

(* C18. signed_commit_data returns the header's lines in their order,      *)
(* without each line that begins with "gpgsig " and the lines directly     *)
(* after it that begin with a space, then one line feed, then the body;    *)
(* every other line, the space-prefixed continuation lines of other        *)
(* headers included, passes through byte for byte.                         *)
C18_SignedCommitData ==
    payload.done => payload.bytes = KeptFrom(1) \o <<LF>> \o body

\* The gpgsig line is dropped, and the header after it is kept with its
\* continuation line, which has no line feed at its end.
C18_Witness ==
    /\ payload.done
    /\ header = <<"gpgsig", SP, LF, "x", LF, SP>>
    /\ body = <<"x">>
    /\ payload.bytes = <<"x", LF, SP, LF, "x">>

-----------------------------------------------------------------------------
(* MainSpec: the verify path of the binary (main.rs 189-256, 305-332) on   *)
(* the repository of the protocol. The process ends by std::process::exit, *)
(* by a panic (unwrap, panic!), or by returning from main.                 *)

\* config.rs 4 and main.rs 44: the exit status for a rejected signature.
EXIT_INVALID_SIGNATURE == 127
\* The exit status of a Rust process that panicked.
EXIT_PANIC == 101

\* The process ends with this status.
ProcessExit(code) ==
    /\ pc' = "done"
    /\ exitCode' = <<code>>

\* An operational failure, as the trace records it.
Fault(kind) == Event("fault", 0, "-", kind, 0)

\* main.rs 306-317: open_repo (panics), check_tag_exists (exit 1),
\* repo.head().unwrap(), read_or_update_local_config(..).unwrap().
MainStart ==
    /\ pc = "idle"
    /\ tagBefore' = tagRef
    /\ \E repoOk \in BOOLEAN :
          LET r == read_or_update_local_config(config, None, None, None) IN
          IF ~repoOk
          THEN /\ ProcessExit(EXIT_PANIC)
               /\ trace' = <<Fault("repository")>>
               /\ UNCHANGED <<config, fromRef>>
          ELSE IF tagRef.kind = "none"
               THEN /\ ProcessExit(1)
                    /\ trace' = <<Fault("checkpoint")>>
                    /\ UNCHANGED <<config, fromRef>>
               ELSE /\ config' = r.store
                    /\ fromRef' = tagRef
                    /\ IF r.err
                       THEN /\ ProcessExit(EXIT_PANIC)
                            /\ trace' = <<Fault("configuration")>>
                       ELSE /\ pc' = "m_range"
                            /\ UNCHANGED <<exitCode, trace>>
    /\ UNCHANGED <<commits, head, tagRef, result, todo, walkOrder>>
    /\ UNCHANGED <<initVars, gpgVars, cfgVars, dataVars, tagVars>>

\* main.rs 195-202: revwalk, push_range, set_sorting(REVERSE); each `?`
\* makes verify_from_ref return Err, which main prints (330) before it
\* returns.
MainRange ==
    /\ pc = "m_range"
    /\ \E rangeOk \in BOOLEAN :
          IF rangeOk
          THEN /\ todo' \in Orders(Range(fromRef.target, head))
               /\ walkOrder' = todo'
               /\ pc' = "m_walk"
               /\ UNCHANGED <<exitCode, trace>>
          ELSE /\ ProcessExit(0)
               /\ trace' = Append(trace, Fault("range"))
               /\ UNCHANGED <<todo, walkOrder>>
    /\ UNCHANGED <<commits, head, tagRef, config, result, fromRef, tagBefore>>
    /\ UNCHANGED <<initVars, gpgVars, cfgVars, dataVars, tagVars>>

\* main.rs 226-253: one turn of the loop. find_commit(..)? returns Err to
\* main; whatever the gpgsig header holds goes to verify_detached(..).unwrap().
MainWalk ==
    /\ pc = "m_walk"
    /\ todo # <<>>
    /\ todo' = Tail(todo)
    /\ \E readOk \in BOOLEAN :
          LET c == Head(todo)
              r == EngineVerifyDetached(commits[c].gpgsig)
          IN  IF ~readOk
              THEN /\ ProcessExit(0)
                   /\ trace' = Append(trace, Fault("object"))
              ELSE IF commits[c].gpgsig = "none"
                   THEN /\ ProcessExit(EXIT_INVALID_SIGNATURE)
                        /\ trace' = Append(trace, Event("commit", c, "false", "not signed", c))
                   ELSE IF r.err
                        THEN /\ ProcessExit(EXIT_PANIC)
                             /\ trace' = trace \o <<Event("engine", c, "-", "-", c),
                                                     Fault("engine")>>
                        ELSE IF verify_gpg_signature_result(r.sigs) = "Ok"
                             THEN /\ trace' = trace \o
                                       <<Event("engine", c, "-", "-", c),
                                         Event("commit", c, "true", "trusted", c)>>
                                  /\ UNCHANGED <<pc, exitCode>>
                             ELSE /\ ProcessExit(EXIT_INVALID_SIGNATURE)
                                  /\ trace' = trace \o
                                       <<Event("engine", c, "-", "-", c),
                                         Event("commit", c, "false",
                                               verify_gpg_signature_result(r.sigs), c)>>
    /\ UNCHANGED <<commits, head, tagRef, config, result, fromRef, walkOrder, tagBefore>>
    /\ UNCHANGED <<initVars, gpgVars, cfgVars, dataVars, tagVars>>

\* main.rs 320-329 and 82-94: verify_from_ref returned Ok(()), the tag is
\* moved with repo.tag (an annotated tag without signature); a failure of
\* add_tag is printed, and main returns.
MainAdvance ==
    /\ pc = "m_walk"
    /\ todo = <<>>
    /\ \E tagOk \in BOOLEAN :
          IF tagOk
          THEN /\ tagRef' = TagObject(head, TRUE, "none")
               /\ trace' = Append(trace, Event("write", head, "-", "-", head))
          ELSE /\ trace' = Append(trace, Fault("tag"))
               /\ UNCHANGED tagRef
    /\ ProcessExit(0)
    /\ UNCHANGED <<commits, head, config, result, fromRef, todo, walkOrder, tagBefore>>
    /\ UNCHANGED <<initVars, gpgVars, cfgVars, dataVars, tagVars>>

\* The process is gone; the next one starts afresh.
MainExit ==
    /\ pc = "done"
    /\ pc' = "idle"
    /\ exitCode' = <<>>
    /\ fromRef' = NoRef
    /\ todo' = <<>>
    /\ walkOrder' = <<>>
    /\ trace' = <<>>
    /\ tagBefore' = NoRef
    /\ UNCHANGED <<commits, head, tagRef, config, result>>
    /\ UNCHANGED <<initVars, gpgVars, cfgVars, dataVars, tagVars>>

MainNext ==
    \/ GitCommit
    \/ GitCheckout
    \/ MainStart
    \/ MainRange
    \/ MainWalk
    \/ MainAdvance
    \/ MainExit

MainSpec == Init /\ [][MainNext]_vars

\* How the pass of the process ended.
Faulted == EventIdx("fault") # {}
Rejected == \E i \in EventIdx("commit") : trace[i].verdict = "false"
AllTrusted ==
    /\ ~Faulted
    /\ \A c \in RangeBefore :
          \E i \in EventIdx("commit") : trace[i].id = c /\ trace[i].verdict = "true"

(* C12. The exit status of the verify process is 0 only when the pass      *)
(* ended in AllTrusted, 127 when a signature was rejected, and 1 for every *)
(* operational error (missing repository, missing checkpoint,              *)
(* configuration error, failure while walking or reading the range).       *)
C12_ExitCodes ==
    exitCode # <<>>
        => /\ exitCode = <<0>> => AllTrusted
           /\ Rejected => exitCode = <<EXIT_INVALID_SIGNATURE>>
           /\ Faulted => exitCode = <<1>>

-----------------------------------------------------------------------------
(* More of GpgSpec: the failure reasons and the validity threshold.        *)

NO_SIGNATURE_FOUND == "No signature found"

(* C21. verify_gpg_signature_result reports 'No signature found' exactly   *)
(* when the result holds no signer outcome; with at least one signer       *)
(* outcome and none accepted it reports another reason, the first error of *)
(* the first signer outcome.                                               *)
C21_NoSignatureFound ==
    gpgOut # None
        => /\ (gpgOut = NO_SIGNATURE_FOUND) <=> (signatures = <<>>)
           /\ (signatures # <<>> /\ gpgOut # "Ok")
                => gpgOut = Head(SigErrors(signatures[1])
                                 \o <<"GPG key untrusted, should be Full, Ultimate or Marginal.">>)

\* A good signature by a key of unknown validity, alone in the result: the
\* only error pushed is the one for the validity.
C21_Witness ==
    /\ signatures = <<[summary |-> {"VALID"}, validity |-> "Unknown"]>>
    /\ gpgOut = "GPG key untrusted, should be Full, Ultimate or Marginal."

(* C26. A signer outcome whose key validity is below Marginal (unknown,    *)
(* undefined, never) does not make the result Trusted: the result is       *)
(* accepted only if some signer outcome has validity Marginal, Full or     *)
(* Ultimate.                                                               *)
C26_ValidityThreshold ==
    gpgOut = "Ok"
        => \E i \in DOMAIN signatures :
              signatures[i].validity \in {"Marginal", "Full", "Ultimate"}

\* Two good signatures by keys below Marginal: the result was judged and
\* not accepted.
C26_Witness ==
    /\ Len(signatures) = 2
    /\ signatures[1] = [summary |-> {"VALID"}, validity |-> "Never"]
    /\ signatures[2] = [summary |-> {"VALID"}, validity |-> "Undefined"]
    /\ gpgOut \notin {None, "Ok"}

-----------------------------------------------------------------------------
(* More of the protocol: how failures end an invocation.                   *)

\* The events of verify_tag and verify_commit on which the engine's
\* detached-verify call returned an error.
EngineErrors ==
    {i \in DOMAIN trace : trace[i].ev \in {"tag", "commit"} /\ trace[i].diag = "engine error"}

(* C22. An error returned by the engine's detached-verify call is reported *)
(* as an operational fault: the verdict on that object is an error, not    *)
(* the false of a result no signer outcome of which was acceptable, and    *)
(* the invocation ends with an error.                                      *)
C22_EngineErrorIsFault ==
    \A i \in EngineErrors :
        /\ trace[i].verdict = "error"
        /\ Done => result = "error"

\* sign_detached failed in this invocation.
SignFailed == \E i \in EventIdx("sign") : trace[i].verdict = "failed"

(* C25. If signing the new checkpoint fails after every commit of the      *)
(* range was found Trusted, no tag object is written, the reference still  *)
(* points at the previous checkpoint, and verify_command ends with an      *)
(* error, not with true.                                                   *)
C25_SignFailureLeavesCheckpoint ==
    SignFailed
        => /\ EventIdx("write") = {}
           /\ tagRef = tagBefore
           /\ Done /\ result = "error"
           /\ \A c \in RangeBefore :
                 \E i \in EventIdx("commit") : trace[i].id = c /\ trace[i].verdict = "true"

\* Two commits beyond the checkpoint, both found Trusted, and then the
\* signing failed.
C25_Witness ==
    /\ SignFailed
    /\ Cardinality(RangeBefore) = 2
    /\ Cardinality(EventIdx("commit")) = 2
    /\ result = "error"

-----------------------------------------------------------------------------
(* LiveSpec: the protocol with an invocation that, once started, goes on:  *)
(* nothing else runs, and no step of it waits for anything.                *)

\* The local configurations: every key set, the tagger name missing.
LiveConfigs == {Store("a", "a", "a", "a", "a"), Store(None, "a", "a", "a", "a")}

\* The checkpoints: none, a lightweight tag, and an annotated tag that is
\* Trusted, not Trusted, or not readable as UTF-8.
LiveRefs ==
    {NoRef, LightweightTag(1), TagObject(1, TRUE, "pgp_trusted"),
     TagObject(1, TRUE, "pgp_untrusted"), TagObject(1, FALSE, "pgp_trusted")}

LiveInit ==
    /\ commits = <<[parents |-> {}, gpgsig |-> "pgp_trusted"]>>
    /\ head = 1
    /\ tagRef \in LiveRefs
    /\ config \in LiveConfigs
    /\ pc = "idle"
    /\ result = "none"
    /\ fromRef = NoRef
    /\ todo = <<>>
    /\ walkOrder = <<>>
    /\ trace = <<>>
    /\ tagBefore = NoRef
    /\ OthersIdle

LiveSpec ==
    /\ LiveInit
    /\ [][Next]_vars
    /\ WF_vars(VerifyAnchor)
    /\ WF_vars(VerifyRange)
    /\ WF_vars(VerifyNext)
    /\ WF_vars(VerifyAdvance)

\* An invocation is running.
Running == pc \in {"anchor", "range", "walk"}

\* Each commit is evaluated at most once and belongs to the range; a verdict
\* other than true is the last thing the invocation does; the invocation
\* has a result exactly when it is over, and the result tells how it ended.
SinglePass ==
    /\ \A i, j \in EventIdx("commit") : trace[i].id = trace[j].id => i = j
    /\ Evaluated # {} => Evaluated \subseteq RangeBefore
    /\ \A i \in EventIdx("commit") :
          trace[i].verdict # "true" => i = Len(trace) /\ Done /\ result = "false"
    /\ Done <=> result \in {"true", "false", "error"}
    /\ (Done /\ result = "true")
          => /\ Evaluated = RangeBefore
             /\ \A i \in EventIdx("commit") : trace[i].verdict = "true"
    /\ (Done /\ result = "false")
          => \E i \in EventIdx("tag") \cup EventIdx("commit") :
                i = Len(trace) /\ trace[i].verdict # "true"
    /\ (Done /\ result = "error")
          => \A i \in EventIdx("tag") \cup EventIdx("commit") :
                trace[i].verdict = "true" \/ trace[i].ev = "tag"

(* C30. Every verify invocation over a finite range terminates in exactly  *)
(* one of AllTrusted (true), Rejected (false) or an operational error,     *)
(* having evaluated each commit of the range at most once and never        *)
(* evaluating a commit after a Rejected verdict.                           *)
C30_SinglePassTerminates ==
    /\ []SinglePass
    /\ Running ~> Done

\* The first of the two commits of the range was rejected: the invocation
\* is over and the other commit was never evaluated.
C30_Witness ==
    /\ Done /\ result = "false"
    /\ Cardinality(RangeBefore) = 2
    /\ Cardinality(EventIdx("commit")) = 1
    /\ Len(todo) = 1

-----------------------------------------------------------------------------
(* FaultSpec: the protocol over an object store that can fail to yield a   *)
(* commit of the range (object missing or unreadable).                     *)

\* lines 117-128 and 139 when repo.find_commit(commit_oid) fails: the `?` of
\* verify_commit returns Err, which the loop reports as a commit that is not
\* signed and turns into Ok(false).
VerifyNextUnreadable ==
    /\ pc = "walk"
    /\ todo # <<>>
    /\ LET c == Head(todo) IN
       trace' = trace \o <<Event("fault", c, "-", "find_commit", c),
                           Event("commit", c, "error", "not signed", c)>>
    /\ todo' = Tail(todo)
    /\ Finish("false")
    /\ UNCHANGED <<commits, head, tagRef, config, fromRef, walkOrder, tagBefore>>
    /\ UNCHANGED others

FaultNext ==
    \/ GitCommit
    \/ GitCheckout
    \/ VerifyStart
    \/ VerifyAnchor
    \/ VerifyRange
    \/ VerifyNext
    \/ VerifyNextUnreadable
    \/ VerifyAdvance
    \/ Exit

FaultSpec == Init /\ [][FaultNext]_vars

(* C23. A failure to read a commit of the range from the object store is   *)
(* surfaced as an operational error of the invocation, not as the verdict  *)
(* false of an unsigned commit.                                            *)
C23_ReadFailureIsError ==
    (Done /\ EventIdx("fault") # {})
        => /\ result = "error"
           /\ \A i \in EventIdx("commit") : trace[i].diag = "not signed"
                 => commits[trace[i].id].gpgsig = "none"

-----------------------------------------------------------------------------
(* TagSpec: the bytes of a checkpoint. add_tag (git.rs 61-100) formats the *)
(* metadata from the tagger, signs it and writes metadata and signature as *)
(* one object; verify_tag (verify.rs 189-203) splits the object it reads.  *)
(* Text is a sequence of tokens: a token is a piece of text that the       *)
(* functions never look into.                                              *)

\* Largest number of tokens in a tagger's name, and in its email.
MaxName == 2

\* What a name or an email is made of.
NameBytes == {"x", BEGIN}

\* The UTC offsets of a tagger, in minutes east or west of Greenwich.
OffsetMinutes == {0, 60, 120, 210, 330, 345, 840}

Digits == <<"0", "1", "2", "3", "4", "5", "6", "7", "8", "9">>

\* format!("{:+05}", n) for a number of sign s and magnitude n: the sign,
\* then the magnitude on four digits.
Plus05(s, n) ==
    <<s, Digits[((n \div 1000) % 10) + 1], Digits[((n \div 100) % 10) + 1],
         Digits[((n \div 10) % 10) + 1], Digits[(n % 10) + 1]>>

\* git.rs 81: tagger.when().offset_minutes() * 100 / 60, formatted. The
\* division truncates toward zero, so the sign stays with the magnitude.
OffsetField(s, minutes) == Plus05(s, (minutes * 100) \div 60)

\* git.rs 74-83: tag_content for the commit of the given id.
FormatTagContent(id, name, email, s, minutes) ==
    <<"object", SP, id, LF, "type", SP, "commit", LF, "tag", SP, TAG_NAME, LF, "tagger", SP>>
    \o name \o <<SP, "<">> \o email \o <<">", SP, "1750782139", SP>>
    \o OffsetField(s, minutes)
    \o <<LF, LF, "Verification tag managed by git-sign-verifier", LF>>

\* git.rs 129-146: the armored detached signature sign_detached returns.
sign_tag_content ==
    <<BEGIN, SP, "PGP SIGNATURE-----", LF, "iQIzBAABCAAd", LF, "-----END PGP SIGNATURE-----", LF>>

\* raw_tag_str.find("-----BEGIN"): the first position of the text, 0 if the
\* object does not hold it.
Find(raw_tag_str) ==
    IF \E i \in DOMAIN raw_tag_str : raw_tag_str[i] = BEGIN
    THEN CHOOSE i \in DOMAIN raw_tag_str :
            /\ raw_tag_str[i] = BEGIN
            /\ \A j \in 1..(i - 1) : raw_tag_str[j] # BEGIN
    ELSE 0

TagInit ==
    /\ tagger = NoTagger
    /\ tagBytes = NoTagBytes
    /\ RepoIdle /\ InitIdle /\ MainIdle /\ GpgIdle /\ CfgIdle /\ DataIdle

\* user.name gets one more token.
TagNameByte ==
    /\ tagBytes.stage = "none"
    /\ tagger.email = <<>>
    /\ Len(tagger.name) < MaxName
    /\ \E b \in NameBytes : tagger' = [tagger EXCEPT !.name = Append(@, b)]
    /\ UNCHANGED <<tagBytes, repoVars, initVars, exitCode, gpgVars, cfgVars, dataVars>>

\* user.email gets one more token.
TagEmailByte ==
    /\ tagBytes.stage = "none"
    /\ Len(tagger.email) < MaxName
    /\ \E b \in NameBytes : tagger' = [tagger EXCEPT !.email = Append(@, b)]
    /\ UNCHANGED <<tagBytes, repoVars, initVars, exitCode, gpgVars, cfgVars, dataVars>>

\* The tagger's clock is in another time zone.
TagOffset ==
    /\ tagBytes.stage = "none"
    /\ tagger.minutes = 0
    /\ \E s \in {"+", "-"}, m \in OffsetMinutes \ {0} :
          tagger' = [tagger EXCEPT !.sign = s, !.minutes = m]
    /\ UNCHANGED <<tagBytes, repoVars, initVars, exitCode, gpgVars, cfgVars, dataVars>>

\* git.rs 64-100: Signature::now refuses an empty name or email; otherwise
\* the metadata is formatted and signed, and metadata then signature are
\* written as the tag object.
TagAdd ==
    /\ tagBytes.stage = "none"
    /\ \E id \in {"c1", "c2"} :
          LET tag_content ==
                  FormatTagContent(id, tagger.name, tagger.email, tagger.sign, tagger.minutes)
              signature == sign_tag_content
          IN  tagBytes' =
                  IF tagger.name = <<>> \/ tagger.email = <<>>
                  THEN [tagBytes EXCEPT !.stage = "error"]
                  ELSE [tagBytes EXCEPT !.stage = "written",
                                        !.signed = tag_content,
                                        !.signature = signature,
                                        !.object = tag_content \o signature]
    /\ UNCHANGED <<tagger, repoVars, initVars, exitCode, gpgVars, cfgVars, dataVars>>

\* verify.rs 189-203: the object is split at the first "-----BEGIN"; what
\* precedes is the text to verify, the rest is the signature.
TagVerify ==
    /\ tagBytes.stage = "written"
    /\ LET raw_tag_str == tagBytes.object
           sig_start_pos == Find(raw_tag_str)
       IN  tagBytes' =
               IF sig_start_pos = 0
               THEN [tagBytes EXCEPT !.stage = "unsigned"]
               ELSE [tagBytes EXCEPT
                       !.stage = "split",
                       !.tag_content = SubSeq(raw_tag_str, 1, sig_start_pos - 1),
                       !.signature_data =
                           SubSeq(raw_tag_str, sig_start_pos, Len(raw_tag_str))]
    /\ UNCHANGED <<tagger, repoVars, initVars, exitCode, gpgVars, cfgVars, dataVars>>

TagNext == TagNameByte \/ TagEmailByte \/ TagOffset \/ TagAdd \/ TagVerify

TagSpec == TagInit /\ [][TagNext]_vars

(* C24. Checkpoint write/read round trip: for every checkpoint object      *)
(* written by add_tag, whatever the tagger's name and email and the target *)
(* commit, the text verify_tag submits for verification is exactly the     *)
(* metadata add_tag signed, and the signature it submits is exactly the    *)
(* signature add_tag appended.                                             *)
C24_TagRoundTrip ==
    tagBytes.stage \in {"split", "unsigned"}
        => /\ tagBytes.stage = "split"
           /\ tagBytes.tag_content = tagBytes.signed
           /\ tagBytes.signature_data = tagBytes.signature

\* The offset field of the tagger line of the object written.
OffsetWritten ==
    SubSeq(tagBytes.object, 21 + Len(tagger.name) + Len(tagger.email),
                            25 + Len(tagger.name) + Len(tagger.email))

(* C27. For every tagger UTC offset in whole minutes, multiples of 60 or   *)
(* not, the offset field add_tag writes on the tagger line is the sign     *)
(* followed by the two-digit hours and the two-digit minutes of it.        *)
C27_OffsetIsHHMM ==
    tagBytes.stage = "written"
        => OffsetWritten = <<tagger.sign,
                             Digits[((tagger.minutes \div 60) \div 10) + 1],
                             Digits[((tagger.minutes \div 60) % 10) + 1],
                             Digits[((tagger.minutes % 60) \div 10) + 1],
                             Digits[((tagger.minutes % 60) % 10) + 1]>>

-----------------------------------------------------------------------------
(* RerunSpec: the protocol in a repository whose committer is configured   *)
(* with any user.name, one that holds the text "-----BEGIN" included.      *)

\* The local configurations: every key set, user.name plain or not.
RerunConfigs == {Store("a", "a", "a", "a", "a"), Store("a", "a", "a", BEGIN, "a")}

RerunInit ==
    /\ commits = <<[parents |-> {}, gpgsig |-> "pgp_trusted"]>>
    /\ head = 1
    /\ tagRef \in InitialRefs
    /\ config \in RerunConfigs
    /\ pc = "idle"
    /\ result = "none"
    /\ fromRef = NoRef
    /\ todo = <<>>
    /\ walkOrder = <<>>
    /\ trace = <<>>
    /\ tagBefore = NoRef
    /\ OthersIdle

RerunSpec == RerunInit /\ [][Next]_vars

\* The checkpoint is one that a run of verify_command which returned true
\* has left, signed with a key the keyring trusts, and HEAD is still the
\* commit it was.
LeftByTrueRun(ref) ==
    /\ ref.kind = "tag" /\ ref.utf8
    /\ ref.target = head
    /\ ref.sig = "pgp_trusted"

(* C28. Re-running verify_command right after a run that returned true,    *)
(* with no new commit and the signing key trusted in the unchanged         *)
(* keyring, returns true again and leaves the checkpoint on the same tip:  *)
(* the empty range is vacuously AllTrusted and the checkpoint written by   *)
(* the first run passes checkpoint verification. A run that returned true  *)
(* with a trusted signing key leaves such a checkpoint and a complete      *)
(* configuration; a run that starts there evaluates no commit and returns  *)
(* true with the checkpoint on the same commit, unless signing the new tag *)
(* fails, which ends it with an error and the checkpoint in place.         *)
C28_RerunIsTrue ==
    /\ (Done /\ result = "true" /\ tagRef.sig = "pgp_trusted")
          => LeftByTrueRun(tagRef) /\ TaggerConfigured /\ UserConfigured
    /\ (Done /\ LeftByTrueRun(tagBefore) /\ TaggerConfigured /\ UserConfigured)
          => /\ Evaluated = {}
             /\ tagRef.target = tagBefore.target
             /\ \/ result = "true"
                \/ result = "error" /\ SignFailed /\ tagRef = tagBefore

====
